---------------------------- MODULE Spec2Model ----------------------------
(***************************************************************************)
(* Fan-out / fan-in combinators of torch/utils/data/datapipes/iter/        *)
(* combining.py: the fork container with its child views, and the concat,  *)
(* mux and zip stages.                                                     *)
(*                                                                         *)
(* An upstream element is identified with its position in its source: the  *)
(* element at position p of the fork's upstream is p, and the element at   *)
(* position p of source s of a fan-in stage is <<s, p>>.  The code never   *)
(* inspects an element, so this loses nothing and makes duplication, loss  *)
(* and reordering visible.                                                 *)
(***************************************************************************)
EXTENDS Integers, Sequences, FiniteSets

\* Bounds of the model.
MaxInstances == 3
MaxBufferSize == 2
MaxLen == 3
MaxSources == 3
MaxSrcLen == 2
MaxNodes == 4
MaxLeaf == 1
MaxLevel == 3
MaxViews == 2
MaxDemuxLen == 3

\* end_ptr = None and _datapipe_iterator = None
NoEnd == -1
NoIter == -1
\* self.length = None, and the -1 the stages store for "no valid length"
NoLength == -2
InvalidLength == -1

VARIABLES
    \* ---- _ForkerIterDataPipe (one container shared by its child views)
    num_instances,      \* self.num_instances
    buffer_size,        \* self.buffer_size
    src_len,            \* number of elements of self.main_datapipe
    datapipe_iterator,  \* self._datapipe_iterator: NoIter, or the next upstream position
    buffer,             \* self.buffer (deque), front first
    child_pointers,     \* self.child_pointers
    slowest_ptr,        \* self.slowest_ptr
    leading_ptr,        \* self.leading_ptr
    end_ptr,            \* self.end_ptr: NoEnd for None
    \* ---- the consumers
    gen,                \* per child view: state of the generator __iter__ returned last
    out,                \* per child view: elements yielded to it since the last reset()
    last,               \* outcome of the last call made by a consumer
    overflowed,         \* some pull has failed with BufferError
    reiterated,         \* some view has been asked for a second iterator
    lockstep,           \* every pull so far was made by a consumer no one was behind
    clean_pass,         \* the last reset() found every consumer exhausted
    \* ---- one fan-in stage: ConcaterIterDataPipe, MultiplexerIterDataPipe
    \*      or ZipperIterDataPipe
    cls,                \* which of the three classes the stage is
    datapipes,          \* the constructor's arguments / self.datapipes
    status,             \* "new" before the constructor ran, then "ready" or its error
    length,             \* self.length: NoLength for None
    len_res,            \* outcome of the last len(stage)
    gstate,             \* state of the generator iter(stage) returned last
    iterators,          \* per source: next position of the generator's iterator over it
    cur,                \* index of the source the generator's for loop is at
    finished,           \* mux: the local dict finished, as the set of its keys
    had_more,           \* mux: the local had_more
    rounds,             \* mux: how often the body of the while loop was entered
    yielded,            \* elements the generator has yielded
    \* ---- one MapperIterDataPipe and the element its upstream hands it
    map_data,           \* the element
    nesting_level,      \* the constructor's argument / self.nesting_level
    map_status,         \* "new" before the constructor ran, then "ready" or its error
    map_res,            \* outcome of the last next() on the stage's generator
    \* ---- one DemultiplexerIterDataPipe call and the views it returned
    dm_len,             \* number of elements of the upstream datapipe
    instances,          \* the argument instances
    classifier,         \* classifier_fn, by upstream position
    dm_status,          \* "new" before __new__ ran, then "ready"
    dm_buffer,          \* the local buffer = list(datapipe)
    up_iters,           \* how often iter() was called on the upstream
    up_pulls,           \* how many elements were pulled from the upstream
    dm_gen,             \* per view: state of the generator iter(view) returned last
    dm_pos,             \* per view: next position of that generator in dm_buffer
    dm_out              \* per view: elements that generator has yielded

forkVars == <<num_instances, buffer_size, src_len, datapipe_iterator, buffer,
              child_pointers, slowest_ptr, leading_ptr, end_ptr, gen, out, last,
              overflowed, reiterated, lockstep, clean_pass>>

fanVars == <<cls, datapipes, status, length, len_res, gstate, iterators, cur,
             finished, had_more, rounds, yielded>>

mapVars == <<map_data, nesting_level, map_status, map_res>>

demuxVars == <<dm_len, instances, classifier, dm_status, dm_buffer, up_iters,
               up_pulls, dm_gen, dm_pos, dm_out>>

otherVars == <<mapVars, demuxVars>>

vars == <<forkVars, fanVars, otherVars>>

Instances == 0 .. (num_instances - 1)

\* min(self.child_pointers)
Min(ptrs) == CHOOSE m \in {ptrs[j] : j \in DOMAIN ptrs} : \A j \in DOMAIN ptrs : m <= ptrs[j]

Max(ptrs) == CHOOSE m \in {ptrs[j] : j \in DOMAIN ptrs} : \A j \in DOMAIN ptrs : m >= ptrs[j]

\* ---------------------------------------------------------------------
\* The fan-in stages.  A source is [len, kind]: it holds len elements, the
\* one at position p of source s being <<s, p>>; kind says how it answers
\* len(): "sized" reports len, "unsized" has no __len__, "raising" has a
\* __len__ that raises TypeError (as a ConcaterIterDataPipe or
\* ZipperIterDataPipe over an unsized source does).

Kinds == {"sized", "unsized", "raising"}

Sources == [len : 0 .. MaxSrcLen, kind : Kinds]

SeqsUpTo(S, n) == UNION {[1 .. k -> S] : k \in 0 .. n}

\* isinstance(dp, Sized)
IsSized(dp) == dp.kind # "unsized"

RECURSIVE SumLen(_)
SumLen(dps) == IF dps = <<>> THEN 0 ELSE dps[1].len + SumLen(Tail(dps))

MinLen(dps) ==
    CHOOSE m \in {dps[j].len : j \in DOMAIN dps} : \A j \in DOMAIN dps : m <= dps[j].len

MaxLenOf(dps) ==
    IF dps = <<>> THEN 0
    ELSE CHOOSE m \in {dps[j].len : j \in DOMAIN dps} : \A j \in DOMAIN dps : m >= dps[j].len

LenResult(res, val, cached) == [res |-> res, val |-> val, cached |-> cached]

\* lines 36-39 and 222-225: the answer from a stored self.length
StoredLength(l, cached) ==
    IF l = InvalidLength THEN LenResult("TypeError", <<>>, cached)
    ELSE LenResult("ok", <<l>>, cached)

\* line 227 taking the first source's length for the minimum
ZipLengthFirst(dps) == dps[1].len

\* line 41: sum(len(dp) for dp in self.datapipes)
ConcatLength(dps) == SumLen(dps)

\* line 227: min(len(dp) for dp in self.datapipes)
ZipLength(dps) == MinLen(dps)

\* ConcaterIterDataPipe.__init__ (22-28), MultiplexerIterDataPipe.__init__
\* (177-178), ZipperIterDataPipe.__init__ (209-215); every argument is an
\* IterDataPipe
Construct ==
    /\ status = "new"
    /\ status' = IF cls = "concat" /\ Len(datapipes) = 0 THEN "ValueError" ELSE "ready"
    /\ length' = NoLength
    /\ UNCHANGED <<cls, datapipes, len_res, gstate, iterators, cur, finished,
                   had_more, rounds, yielded>>
    /\ UNCHANGED forkVars
    /\ UNCHANGED otherVars

\* ConcaterIterDataPipe.__len__ (35-44)
ConcatLen ==
    /\ cls = "concat" /\ status = "ready"
    /\ IF length # NoLength
       THEN /\ len_res' = StoredLength(length, TRUE)
            /\ UNCHANGED length
       ELSE IF \A j \in DOMAIN datapipes : IsSized(datapipes[j])
       THEN IF \E j \in DOMAIN datapipes : datapipes[j].kind = "raising"
            THEN \* a len(dp) of line 41 raises; self.length stays None
                 /\ len_res' = LenResult("TypeError", <<>>, FALSE)
                 /\ UNCHANGED length
            ELSE \* line 41, then line 44 re-enters at line 36
                 /\ length' = ConcatLength(datapipes)
                 /\ len_res' = StoredLength(length', FALSE)
       ELSE \* line 43, then line 44 re-enters at line 36
            /\ length' = InvalidLength
            /\ len_res' = StoredLength(length', FALSE)
    /\ UNCHANGED <<cls, datapipes, status, gstate, iterators, cur, finished,
                   had_more, rounds, yielded>>
    /\ UNCHANGED forkVars
    /\ UNCHANGED otherVars

\* ZipperIterDataPipe.__len__ (221-230)
ZipLen ==
    /\ cls = "zip" /\ status = "ready"
    /\ IF length # NoLength
       THEN /\ len_res' = StoredLength(length, TRUE)
            /\ UNCHANGED length
       ELSE IF \A j \in DOMAIN datapipes : IsSized(datapipes[j])
       THEN IF \E j \in DOMAIN datapipes : datapipes[j].kind = "raising"
            THEN \* a len(dp) of line 227 raises; self.length stays None
                 /\ len_res' = LenResult("TypeError", <<>>, FALSE)
                 /\ UNCHANGED length
            ELSE IF datapipes = <<>>
            THEN \* line 227: min() of an empty sequence
                 /\ len_res' = LenResult("ValueError", <<>>, FALSE)
                 /\ UNCHANGED length
            ELSE \* line 227, then line 230 re-enters at line 222
                 /\ length' = ZipLength(datapipes)
                 /\ len_res' = StoredLength(length', FALSE)
       ELSE \* line 229, then line 230 re-enters at line 222
            /\ length' = InvalidLength
            /\ len_res' = StoredLength(length', FALSE)
    /\ UNCHANGED <<cls, datapipes, status, gstate, iterators, cur, finished,
                   had_more, rounds, yielded>>
    /\ UNCHANGED forkVars
    /\ UNCHANGED otherVars

\* iter(stage): a new generator.  Its body runs from the first next(); up
\* to its first yield it touches only its own locals, which start here with
\* the values the body gives them (181-183).
IterStage ==
    /\ status = "ready"
    /\ gstate' = "fresh"
    /\ iterators' = [j \in DOMAIN datapipes |-> 0]
    /\ cur' = 0
    /\ finished' = {}
    /\ had_more' = TRUE
    /\ rounds' = 0
    /\ yielded' = <<>>
    /\ UNCHANGED <<cls, datapipes, status, length, len_res>>
    /\ UNCHANGED forkVars
    /\ UNCHANGED otherVars

GenStep(done, its, c, fin, hm, rnd, val) ==
    [done |-> done, its |-> its, cur |-> c, fin |-> fin, hm |-> hm, rnd |-> rnd,
     val |-> val]

\* ConcaterIterDataPipe.__iter__ (30-33) from source c on, up to its next
\* yield or its return
RECURSIVE ConcatLoop(_, _, _)
\* lines 31-33 returning at the end of the first source that runs out
ConcatLoopStopsEarly(dps, its, c) ==
    IF c > Len(dps) THEN GenStep(TRUE, its, c, {}, TRUE, 0, <<>>)
    ELSE IF its[c] < dps[c].len
    THEN GenStep(FALSE, [its EXCEPT ![c] = @ + 1], c, {}, TRUE, 0, <<c, its[c]>>)
    ELSE GenStep(TRUE, its, c, {}, TRUE, 0, <<>>)

ConcatLoop(dps, its, c) ==
    IF c > Len(dps) THEN GenStep(TRUE, its, c, {}, TRUE, 0, <<>>)
    ELSE IF its[c] < dps[c].len
    THEN GenStep(FALSE, [its EXCEPT ![c] = @ + 1], c, {}, TRUE, 0, <<c, its[c]>>)
    ELSE ConcatLoop(dps, its, c + 1)

\* MultiplexerIterDataPipe.__iter__ (184-193): MuxWhile is the while test of
\* line 184, MuxFor the for loop of line 186 about to take index i
RECURSIVE MuxWhile(_, _, _, _, _)
RECURSIVE MuxFor(_, _, _, _, _, _)
MuxWhile(dps, its, fin, hm, rnd) ==
    IF hm THEN MuxFor(dps, its, fin, FALSE, 1, rnd + 1)
    ELSE GenStep(TRUE, its, 0, fin, hm, rnd, <<>>)

\* lines 186-193 without line 190 (had_more is never set again)
MuxForNoHadMore(dps, its, fin, hm, i, rnd) ==
    IF i > Len(dps) THEN MuxWhile(dps, its, fin, hm, rnd)
    ELSE IF i \in fin THEN MuxFor(dps, its, fin, hm, i + 1, rnd)
    ELSE IF its[i] < dps[i].len
    THEN GenStep(FALSE, [its EXCEPT ![i] = @ + 1], i, fin, hm, rnd, <<i, its[i]>>)
    ELSE MuxFor(dps, its, fin \cup {i}, hm, i + 1, rnd)

MuxFor(dps, its, fin, hm, i, rnd) ==
    IF i > Len(dps) THEN MuxWhile(dps, its, fin, hm, rnd)
    ELSE IF i \in fin THEN MuxFor(dps, its, fin, hm, i + 1, rnd)
    ELSE IF its[i] < dps[i].len
    THEN GenStep(FALSE, [its EXCEPT ![i] = @ + 1], i, fin, TRUE, rnd, <<i, its[i]>>)
    ELSE MuxFor(dps, its, fin \cup {i}, hm, i + 1, rnd)

\* the builtin zip of line 218: the first source, in argument order, that has
\* nothing left (0 if none)
ZipExhausted(dps, its) ==
    IF \E j \in DOMAIN dps : its[j] >= dps[j].len
    THEN CHOOSE j \in DOMAIN dps :
            /\ its[j] >= dps[j].len
            /\ \A h \in DOMAIN dps : its[h] >= dps[h].len => j <= h
    ELSE 0

\* ZipperIterDataPipe.__iter__ (217-219): zip takes one element of each source
\* in order and stops at the first that has none; zip() of nothing is empty
ZipLoop(dps, its) ==
    LET x == ZipExhausted(dps, its) IN
    IF dps = <<>> THEN GenStep(TRUE, its, 0, {}, TRUE, 0, <<>>)
    ELSE IF x = 0
    THEN GenStep(FALSE, [j \in DOMAIN dps |-> its[j] + 1], 0, {}, TRUE, 0,
                 [j \in DOMAIN dps |-> <<j, its[j]>>])
    ELSE GenStep(TRUE, [j \in DOMAIN dps |-> IF j < x THEN its[j] + 1 ELSE its[j]],
                 0, {}, TRUE, 0, <<>>)

\* what next() of a generator that has not finished runs
Resume ==
    IF cls = "concat"
    THEN ConcatLoop(datapipes, iterators, IF gstate = "fresh" THEN 1 ELSE cur)
    ELSE IF cls = "mux"
    THEN IF gstate = "fresh"
         THEN MuxWhile(datapipes, iterators, finished, had_more, rounds)
         ELSE MuxFor(datapipes, iterators, finished, had_more, cur + 1, rounds)
    ELSE ZipLoop(datapipes, iterators)

\* next() on the generator
NextElem ==
    /\ status = "ready" /\ gstate # "none"
    /\ IF gstate = "done"
       THEN UNCHANGED <<gstate, iterators, cur, finished, had_more, rounds, yielded>>
       ELSE LET r == Resume IN
            /\ gstate' = IF r.done THEN "done" ELSE "suspended"
            /\ iterators' = r.its
            /\ cur' = r.cur
            /\ finished' = r.fin
            /\ had_more' = r.hm
            /\ rounds' = r.rnd
            /\ yielded' = IF r.done THEN yielded ELSE Append(yielded, r.val)
    /\ UNCHANGED <<cls, datapipes, status, length, len_res>>
    /\ UNCHANGED forkVars
    /\ UNCHANGED otherVars

\* no fan-in stage (the fork is modelled alone)
NoStage ==
    /\ cls = "none"
    /\ datapipes = <<>>
    /\ status = "none"
    /\ length = NoLength
    /\ len_res = LenResult("none", <<>>, FALSE)
    /\ gstate = "none"
    /\ iterators = <<>>
    /\ cur = 0
    /\ finished = {}
    /\ had_more = FALSE
    /\ rounds = 0
    /\ yielded = <<>>

\* ---------------------------------------------------------------------
\* MapperIterDataPipe (callable.py).  An element is a tree: a leaf
\* [tag |-> "leaf", v], a list [tag |-> "list", items] or a DataChunk
\* [tag |-> "chunk", items].  fn is opaque: fn(x, *args, **kwargs) is
\* [tag |-> "fn", arg |-> x].

Leaf(v) == [tag |-> "leaf", v |-> v]

Node(tag, items) == [tag |-> tag, items |-> items]

\* self.fn(data, *self.args, **self.kwargs)
Fn(x) == [tag |-> "fn", arg |-> x]

\* isinstance(data, DataChunk) or isinstance(data, list)
IsNested(x) == x.tag \in {"list", "chunk"}

Returned(x) == [res |-> "ok", val |-> x]

Raised(e) == [res |-> e, val |-> [tag |-> "none"]]

\* type(data)([...]) / [...] around the items' results; an exception raised
\* for an item leaves the comprehension
Rebuild(tag, rs) ==
    IF \E k \in DOMAIN rs : rs[k].res # "ok" THEN Raised("IndexError")
    ELSE Returned(Node(tag, [k \in DOMAIN rs |-> rs[k].val]))

RECURSIVE applyNoDecrement(_, _)
RECURSIVE apply(_, _)
\* lines 71 and 73 passing nesting_level on instead of nesting_level - 1
applyNoDecrement(data, level) ==
    IF level = 0 THEN Returned(Fn(data))
    ELSE IF level > 0
    THEN IF IsNested(data)
         THEN Rebuild(data.tag, [k \in DOMAIN data.items |-> apply(data.items[k], level)])
         ELSE Raised("IndexError")
    ELSE IF IsNested(data)
         THEN Rebuild(data.tag, [k \in DOMAIN data.items |-> apply(data.items[k], level)])
         ELSE Returned(Fn(data))

\* MapperIterDataPipe._apply (66-82)
apply(data, level) ==
    IF level = 0 THEN Returned(Fn(data))
    ELSE IF level > 0
    THEN IF IsNested(data)
         THEN Rebuild(data.tag, [k \in DOMAIN data.items |-> apply(data.items[k], level - 1)])
         ELSE Raised("IndexError")
    ELSE IF IsNested(data)
         THEN Rebuild(data.tag, [k \in DOMAIN data.items |-> apply(data.items[k], level)])
         ELSE Returned(Fn(data))

\* MapperIterDataPipe.__init__ (46-64)
MapConstruct ==
    /\ map_status = "new"
    /\ map_status' = IF nesting_level < -1 THEN "ValueError" ELSE "ready"
    /\ UNCHANGED <<map_data, nesting_level, map_res>>
    /\ UNCHANGED <<forkVars, fanVars, demuxVars>>

\* next() on the generator of MapperIterDataPipe.__iter__ (84-86), the
\* upstream handing it map_data
MapNext ==
    /\ map_status = "ready"
    /\ map_res' = apply(map_data, nesting_level)
    /\ UNCHANGED <<map_data, nesting_level, map_status>>
    /\ UNCHANGED <<forkVars, fanVars, demuxVars>>

\* no map stage
NoMap ==
    /\ map_data = Leaf(0)
    /\ nesting_level = 0
    /\ map_status = "none"
    /\ map_res = Raised("none")

\* ---------------------------------------------------------------------
\* DemultiplexerIterDataPipe.  The upstream has dm_len elements, known by
\* their positions 1 .. dm_len; classifier[x] is classifier_fn(x).

Views == 0 .. instances - 1

\* filter_fn(classifier_fn, i, x) (169-170) accepting everything
filter_fnAll(i, x) == TRUE

\* filter_fn(classifier_fn, i, x) (169-170)
filter_fn(i, x) == classifier[x] = i

\* IterateBuffer.__iter__ (54-56) resumed after pos items: the positions in
\* buffer it can still yield
IterateBufferRest(pos) == pos + 1 .. Len(dm_buffer)

\* the filter stage resumed over an IterateBuffer that has yielded pos
\* items: the buffer positions it can stop at, those whose item passes
FilterRest(i, pos) == {q \in IterateBufferRest(pos) : filter_fn(i, dm_buffer[q])}

\* DemultiplexerIterDataPipe.__new__ (166-172): buffer = list(datapipe),
\* then one filtered IterateBuffer(buffer) per instance
DemuxNew ==
    /\ dm_status = "new"
    /\ up_iters' = up_iters + 1
    /\ up_pulls' = up_pulls + dm_len
    /\ dm_buffer' = [k \in 1 .. dm_len |-> k]
    /\ dm_status' = "ready"
    /\ UNCHANGED <<dm_len, instances, classifier, dm_gen, dm_pos, dm_out>>
    /\ UNCHANGED <<forkVars, fanVars, mapVars>>

\* iter() on view i: a new generator over the shared buffer
DemuxIter(i) ==
    /\ dm_status = "ready"
    /\ dm_gen' = [dm_gen EXCEPT ![i] = "suspended"]
    /\ dm_pos' = [dm_pos EXCEPT ![i] = 0]
    /\ dm_out' = [dm_out EXCEPT ![i] = <<>>]
    /\ UNCHANGED <<dm_len, instances, classifier, dm_status, dm_buffer, up_iters, up_pulls>>
    /\ UNCHANGED <<forkVars, fanVars, mapVars>>

\* next() on view i's generator
DemuxNext(i) ==
    /\ dm_status = "ready"
    /\ dm_gen[i] = "suspended"
    /\ LET rest == FilterRest(i, dm_pos[i]) IN
       IF rest = {}
       THEN /\ dm_gen' = [dm_gen EXCEPT ![i] = "done"]
            /\ dm_pos' = [dm_pos EXCEPT ![i] = Len(dm_buffer)]
            /\ UNCHANGED dm_out
       ELSE LET q == CHOOSE q \in rest : \A r \in rest : q <= r IN
            /\ dm_pos' = [dm_pos EXCEPT ![i] = q]
            /\ dm_out' = [dm_out EXCEPT ![i] = Append(@, dm_buffer[q])]
            /\ UNCHANGED dm_gen
    /\ UNCHANGED <<dm_len, instances, classifier, dm_status, dm_buffer, up_iters, up_pulls>>
    /\ UNCHANGED <<forkVars, fanVars, mapVars>>

\* no demux stage
NoDemux ==
    /\ dm_len = 0
    /\ instances = 0
    /\ classifier = <<>>
    /\ dm_status = "none"
    /\ dm_buffer = <<>>
    /\ up_iters = 0
    /\ up_pulls = 0
    /\ dm_gen = <<>>
    /\ dm_pos = <<>>
    /\ dm_out = <<>>

\* ---------------------------------------------------------------------
\* _ForkerIterDataPipe.get_next_element_by_instance, piece by piece

\* line 96: the while condition
LoopCond(end, ptr) == end = NoEnd \/ ptr < end

\* line 97 with >= for >
IsLeadingOffByOne(buf, ptr, lead) == buf = <<>> \/ ptr >= lead

\* line 97: the consumer has to fetch from upstream
IsLeading(buf, ptr, lead) == buf = <<>> \/ ptr > lead

\* line 99 letting one more position through
OverflowsLate(lead, slow, cap) == lead - slow > cap

\* line 99: the capacity check
Overflows(lead, slow, cap) == lead - slow + 1 > cap

\* line 110: deque.__getitem__ raises IndexError outside [-len, len)
IndexInRange(buf, idx) == -Len(buf) <= idx /\ idx < Len(buf)

\* line 110: deque.__getitem__, a negative index counts from the back
DequeGet(buf, idx) == buf[(IF idx < 0 THEN idx + Len(buf) ELSE idx) + 1]

\* lines 112-115: the new value of slowest_ptr after a buffered read
\* (old is the reader's cursor before the read, ptrs the cursors after it)
NewSlowest(old, ptrs, slow) ==
    IF old = slow /\ slow < Min(ptrs) THEN Min(ptrs) ELSE slow

\* line 116 left out
EvictNever(buf, slow, newslow) == buf

\* line 116: popleft(), taken exactly when slowest_ptr was raised
Evict(buf, slow, newslow) == IF newslow # slow THEN Tail(buf) ELSE buf

\* line 123 never finding the pass finished
is_every_instance_exhaustedNever == FALSE

\* line 123
is_every_instance_exhausted == \A j \in Instances : end_ptr = child_pointers[j]

\* line 120 answering that every instance has started
is_instance_startedAlways(i) == TRUE

\* line 120
is_instance_started(i) == child_pointers[i] # 0

Result(op, i, res, val, warn) ==
    [op |-> op, id |-> i, res |-> res, val |-> val, warn |-> warn]

\* next() on the generator of child view i: _ChildDataPipe.get_generator_by_instance
\* delegating to get_next_element_by_instance(i), run up to its next yield,
\* return or raise.
Pull(i) ==
    /\ gen[i] # "none"
    /\ UNCHANGED fanVars
    /\ UNCHANGED otherVars
    /\ UNCHANGED <<num_instances, buffer_size, src_len, reiterated, clean_pass>>
    /\ lockstep' = (lockstep /\ child_pointers[i] = Min(child_pointers))
    /\ IF gen[i] \in {"done", "failed"}
       THEN \* a generator that returned or raised stays finished
            /\ last' = Result("next", i, "StopIteration", <<>>, FALSE)
            /\ UNCHANGED <<datapipe_iterator, buffer, child_pointers, slowest_ptr,
                           leading_ptr, end_ptr, gen, out, overflowed>>
       ELSE LET \* lines 94-95, run when the generator is first resumed
                it == IF gen[i] = "fresh" /\ datapipe_iterator = NoIter
                      THEN 0 ELSE datapipe_iterator
                ptr == child_pointers[i]
            IN
            IF ~LoopCond(end_ptr, ptr)
            THEN \* line 96 false: the generator returns
                 /\ datapipe_iterator' = it
                 /\ gen' = [gen EXCEPT ![i] = "done"]
                 /\ last' = Result("next", i, "StopIteration", <<>>, FALSE)
                 /\ UNCHANGED <<buffer, child_pointers, slowest_ptr, leading_ptr,
                                end_ptr, out, overflowed>>
            ELSE IF IsLeading(buffer, ptr, leading_ptr)
            THEN \* line 98
                 /\ leading_ptr' = ptr
                 /\ IF Overflows(ptr, slowest_ptr, buffer_size)
                    THEN \* lines 100-101
                         /\ gen' = [gen EXCEPT ![i] = "failed"]
                         /\ last' = Result("next", i, "BufferError", <<buffer_size>>, FALSE)
                         /\ overflowed' = TRUE
                         /\ datapipe_iterator' = it
                         /\ UNCHANGED <<buffer, child_pointers, slowest_ptr, end_ptr, out>>
                    ELSE IF it < src_len
                    THEN \* lines 103-105
                         /\ buffer' = Append(buffer, it)
                         /\ datapipe_iterator' = it + 1
                         /\ child_pointers' = [child_pointers EXCEPT ![i] = ptr + 1]
                         /\ gen' = [gen EXCEPT ![i] = "suspended"]
                         /\ out' = [out EXCEPT ![i] = Append(@, it)]
                         /\ last' = Result("next", i, "yield", <<it>>, FALSE)
                         /\ UNCHANGED <<slowest_ptr, end_ptr, overflowed>>
                    ELSE \* lines 106-107, then line 96 is false since
                         \* child_pointers[i] = leading_ptr = end_ptr
                         /\ end_ptr' = ptr
                         /\ datapipe_iterator' = it
                         /\ gen' = [gen EXCEPT ![i] = "done"]
                         /\ last' = Result("next", i, "StopIteration", <<>>, FALSE)
                         /\ UNCHANGED <<buffer, child_pointers, slowest_ptr, out, overflowed>>
            ELSE LET buffer_index == ptr - slowest_ptr   \* line 109
                 IN
                 /\ datapipe_iterator' = it
                 /\ IF ~IndexInRange(buffer, buffer_index)
                    THEN \* line 110 raises
                         /\ gen' = [gen EXCEPT ![i] = "failed"]
                         /\ last' = Result("next", i, "IndexError", <<>>, FALSE)
                         /\ UNCHANGED <<buffer, child_pointers, slowest_ptr, leading_ptr,
                                        end_ptr, out, overflowed>>
                    ELSE LET return_val == DequeGet(buffer, buffer_index)
                             ptrs == [child_pointers EXCEPT ![i] = ptr + 1]   \* line 111
                             slow == NewSlowest(ptr, ptrs, slowest_ptr)
                         IN
                         /\ child_pointers' = ptrs
                         /\ slowest_ptr' = slow
                         /\ buffer' = Evict(buffer, slowest_ptr, slow)
                         /\ gen' = [gen EXCEPT ![i] = "suspended"]
                         /\ out' = [out EXCEPT ![i] = Append(@, return_val)]
                         /\ last' = Result("next", i, "yield", <<return_val>>, FALSE)
                         /\ UNCHANGED <<leading_ptr, end_ptr, overflowed>>

\* a reset that forgets to rewind the consumers' cursors
resetKeepsCursors ==
    /\ datapipe_iterator' = 0
    /\ buffer' = <<>>
    /\ slowest_ptr' = 0
    /\ leading_ptr' = 0
    /\ end_ptr' = NoEnd
    /\ UNCHANGED child_pointers

\* _ForkerIterDataPipe.reset (125-131)
reset ==
    /\ datapipe_iterator' = 0
    /\ buffer' = <<>>
    /\ child_pointers' = [j \in Instances |-> 0]
    /\ slowest_ptr' = 0
    /\ leading_ptr' = 0
    /\ end_ptr' = NoEnd

\* iter() on child view i: _ChildDataPipe.__iter__ (150-157); the generator
\* it returns replaces the one the consumer held
Iter(i) ==
    /\ UNCHANGED fanVars
    /\ UNCHANGED otherVars
    /\ UNCHANGED <<num_instances, buffer_size, src_len, overflowed>>
    /\ reiterated' = (reiterated \/ gen[i] # "none")
    /\ lockstep' = (lockstep /\ gen[i] = "none")
    /\ gen' = [gen EXCEPT ![i] = "fresh"]
    /\ IF is_instance_started(i)
       THEN /\ last' = Result("iter", i, "ok", <<>>, ~is_every_instance_exhausted)
            /\ reset
            /\ out' = [j \in Instances |-> <<>>]
            /\ clean_pass' = is_every_instance_exhausted
       ELSE /\ last' = Result("iter", i, "ok", <<>>, FALSE)
            /\ UNCHANGED <<datapipe_iterator, buffer, child_pointers, slowest_ptr,
                           leading_ptr, end_ptr, out, clean_pass>>

\* ForkerIterDataPipe.__new__ (lines 70-72) and _ForkerIterDataPipe.__init__ (82-91)
Init ==
    /\ num_instances \in 1 .. MaxInstances
    /\ buffer_size \in 1 .. MaxBufferSize
    /\ src_len \in 0 .. MaxLen
    /\ datapipe_iterator = NoIter
    /\ buffer = <<>>
    /\ child_pointers = [j \in Instances |-> 0]
    /\ slowest_ptr = 0
    /\ leading_ptr = 0
    /\ end_ptr = NoEnd
    /\ gen = [j \in Instances |-> "none"]
    /\ out = [j \in Instances |-> <<>>]
    /\ last = Result("new", 0, "ok", <<>>, FALSE)
    /\ overflowed = FALSE
    /\ reiterated = FALSE
    /\ lockstep = TRUE
    /\ clean_pass = FALSE
    /\ NoStage
    /\ NoMap
    /\ NoDemux

Next ==
    \/ \E i \in Instances : Pull(i)
    \/ \E i \in Instances : Iter(i)

Spec == Init /\ [][Next]_vars


\* no fork (a fan-in stage is modelled alone)
NoFork ==
    /\ num_instances = 0
    /\ buffer_size = 0
    /\ src_len = 0
    /\ datapipe_iterator = NoIter
    /\ buffer = <<>>
    /\ child_pointers = <<>>
    /\ slowest_ptr = 0
    /\ leading_ptr = 0
    /\ end_ptr = NoEnd
    /\ gen = <<>>
    /\ out = <<>>
    /\ last = Result("none", 0, "ok", <<>>, FALSE)
    /\ overflowed = FALSE
    /\ reiterated = FALSE
    /\ lockstep = TRUE
    /\ clean_pass = FALSE

InitFanIn ==
    /\ cls \in {"concat", "mux", "zip"}
    /\ datapipes \in SeqsUpTo(Sources, MaxSources)
    /\ status = "new"
    /\ length = NoLength
    /\ len_res = LenResult("none", <<>>, FALSE)
    /\ gstate = "none"
    /\ iterators = [j \in DOMAIN datapipes |-> 0]
    /\ cur = 0
    /\ finished = {}
    /\ had_more = FALSE
    /\ rounds = 0
    /\ yielded = <<>>
    /\ NoFork
    /\ NoMap
    /\ NoDemux

NextFanIn ==
    \/ Construct
    \/ ConcatLen
    \/ ZipLen
    \/ IterStage
    \/ NextElem

SpecFanIn == InitFanIn /\ [][NextFanIn]_vars

\* ---------------------------------------------------------------------
\* Properties of the fork

\* the first n upstream elements in original order
Prefix(n) == [k \in 1 .. n |-> k - 1]

Live(i) == gen[i] \in {"fresh", "suspended"}

NoDuplicates(buf) == \A a, b \in 1 .. Len(buf) : buf[a] = buf[b] => a = b

\* C1 (as claimed): consumers driven in lockstep never see a buffer overflow,
\* each has been yielded the upstream elements in original order, and a
\* consumer whose iteration completed has been yielded the whole upstream,
\* for every consumer count >= 1 and every capacity >= 1.
C1_LockstepNoOverflow ==
    lockstep =>
        /\ last.res # "BufferError"
        /\ \A i \in Instances :
              /\ out[i] = Prefix(child_pointers[i])
              /\ gen[i] = "done" => out[i] = Prefix(src_len)

\* C2 (as claimed): a pull by a live consumer that is buffer_size positions
\* ahead of the slowest consumer fails with BufferError naming buffer_size
\* and yields nothing.
C2_OverAdvanceOverflows ==
    [][\A i \in Instances :
          (Live(i) /\ child_pointers[i] - Min(child_pointers) = buffer_size /\ Pull(i))
          => /\ last'.res = "BufferError"
             /\ last'.val = <<buffer_size>>
             /\ out' = out
             /\ child_pointers' = child_pointers]_vars

\* C3: iter() on a started view while some consumer has not finished resets
\* the container (cursors, slowest_ptr, leading_ptr at 0, buffer empty,
\* end_ptr cleared, upstream iterator reopened), warns, and does not fail.
C3_PrematureIterResets ==
    [][\A i \in Instances :
          (is_instance_started(i) /\ ~is_every_instance_exhausted /\ Iter(i))
          => /\ \A j \in Instances : child_pointers'[j] = 0
             /\ slowest_ptr' = 0
             /\ leading_ptr' = 0
             /\ buffer' = <<>>
             /\ end_ptr' = NoEnd
             /\ datapipe_iterator' = 0
             /\ last'.warn
             /\ last'.res = "ok"
             /\ Live(i)']_vars

\* C4 (as claimed): leading_ptr - slowest_ptr + 1 <= buffer_size in every
\* reachable state.
C4_WindowWithinCapacity == leading_ptr - slowest_ptr + 1 <= buffer_size

\* C5 (as claimed): slowest_ptr is the minimum of the consumers' cursors in
\* every reachable state, for every consumer count >= 1.
C5_SlowestIsMin == slowest_ptr = Min(child_pointers)

\* C6: between pulls the buffer holds leading_ptr - slowest_ptr or
\* leading_ptr - slowest_ptr + 1 elements, and no upstream position twice.
C6_BufferLength ==
    /\ Len(buffer) \in {leading_ptr - slowest_ptr, leading_ptr - slowest_ptr + 1}
    /\ NoDuplicates(buffer)

\* C7: as long as no pull has failed with overflow and no view has been
\* iterated twice, each consumer has been yielded upstream positions
\* 0, 1, 2, ... in order up to its cursor, and upstream has been pulled
\* exactly once per position any consumer has read.
C7_OrderedOncePerPosition ==
    (~overflowed /\ ~reiterated) =>
        /\ \A i \in Instances : out[i] = Prefix(child_pointers[i])
        /\ datapipe_iterator \in {NoIter, Max(child_pointers)}
        /\ last.res # "IndexError"

\* a state after a premature re-iteration: view last.id asked for a new
\* iterator while another consumer was in flight
C3_Witness ==
    /\ last.op = "iter" /\ last.warn
    /\ \E j \in Instances : j # last.id /\ gen[j] = "suspended"
    /\ \A j \in Instances : child_pointers[j] = 0
    /\ buffer = <<>>

\* a state with two buffered elements after evictions
C6_Witness ==
    /\ num_instances >= 2
    /\ slowest_ptr >= 1
    /\ Len(buffer) = 2
    /\ Len(buffer) = leading_ptr - slowest_ptr + 1

\* every consumer of a fork of two or more has completed a pass over the
\* longest upstream, with no overflow and no re-iteration
C7_Witness ==
    /\ ~overflowed /\ ~reiterated
    /\ num_instances >= 2
    /\ src_len = MaxLen
    /\ \A i \in Instances : gen[i] = "done" /\ Len(out[i]) = src_len

\* ---------------------------------------------------------------------
\* Properties of the fan-in stages

IsPrefix(a, b) == Len(a) <= Len(b) /\ \A k \in 1 .. Len(a) : a[k] = b[k]

\* all elements of source s, in order
Elements(dps, s) == [k \in 1 .. dps[s].len |-> <<s, k - 1>>]

RECURSIVE ConcatFrom(_, _)
ConcatFrom(dps, s) ==
    IF s > Len(dps) THEN <<>> ELSE Elements(dps, s) \o ConcatFrom(dps, s + 1)

\* round r of a round robin: element r of every source that has one, from
\* source s on, in source order
RECURSIVE RoundFrom(_, _, _)
RoundFrom(dps, r, s) ==
    IF s > Len(dps) THEN <<>>
    ELSE (IF r < dps[s].len THEN <<(<<s, r>>)>> ELSE <<>>) \o RoundFrom(dps, r, s + 1)

RECURSIVE RoundsFrom(_, _)
RoundsFrom(dps, r) ==
    IF r >= MaxLenOf(dps) THEN <<>> ELSE RoundFrom(dps, r, 1) \o RoundsFrom(dps, r + 1)

Occurrences(seq, e) == Cardinality({k \in 1 .. Len(seq) : seq[k] = e})

\* C8: a mux yields the round robin of its sources: in each round one
\* element of every source not yet exhausted, in source order; once it has
\* stopped it has yielded every element of every source exactly once, sum
\* of the lengths in all, and it stopped after the first round that yielded
\* nothing.
C8_MuxRoundRobin ==
    (cls = "mux" /\ status = "ready") =>
        /\ IsPrefix(yielded, RoundsFrom(datapipes, 0))
        /\ gstate = "done" =>
              /\ yielded = RoundsFrom(datapipes, 0)
              /\ Len(yielded) = SumLen(datapipes)
              /\ \A s \in DOMAIN datapipes : \A q \in 0 .. (datapipes[s].len - 1) :
                    Occurrences(yielded, <<s, q>>) = 1
              /\ rounds = MaxLenOf(datapipes) + 1

\* a mux of three sources has stopped, its middle source being the shortest
\* and having run out while the others went on
C8_Witness ==
    /\ cls = "mux" /\ gstate = "done"
    /\ Len(datapipes) = 3
    /\ datapipes[2].len = 1
    /\ datapipes[1].len = 2
    /\ datapipes[3].len = 2
    /\ Len(yielded) = 5

\* C9: the i-th tuple a zip yields holds element i of every source; once it
\* has stopped it has yielded as many tuples as its shortest source has
\* elements; and when every source reports a length, len() reports the
\* minimum of them.
C9_ZipShortest ==
    (cls = "zip" /\ status = "ready" /\ datapipes # <<>>) =>
        /\ \A k \in 1 .. Len(yielded) :
              yielded[k] = [j \in DOMAIN datapipes |-> <<j, k - 1>>]
        /\ Len(yielded) <= MinLen(datapipes)
        /\ gstate = "done" => Len(yielded) = MinLen(datapipes)
        /\ (len_res.res # "none" /\ \A j \in DOMAIN datapipes : datapipes[j].kind = "sized")
              => len_res.res = "ok" /\ len_res.val = <<MinLen(datapipes)>>

\* a zip of a longer and a shorter sized source has stopped after yielding,
\* and has reported its length
C9_Witness ==
    /\ cls = "zip" /\ gstate = "done"
    /\ Len(datapipes) = 2
    /\ datapipes[1].len = 2 /\ datapipes[2].len = 1
    /\ Len(yielded) = 1
    /\ len_res.res = "ok"

\* C10: a concat yields the elements of its first source in order, then
\* those of the second, and so on; when every source reports a length
\* len() reports their sum, and when some source reports none every len()
\* fails, the first and the later ones.
C10_ConcatInOrder ==
    (cls = "concat" /\ status = "ready") =>
        /\ IsPrefix(yielded, ConcatFrom(datapipes, 1))
        /\ gstate = "done" => yielded = ConcatFrom(datapipes, 1)
        /\ (len_res.res # "none" /\ \A j \in DOMAIN datapipes : datapipes[j].kind = "sized")
              => len_res.res = "ok" /\ len_res.val = <<SumLen(datapipes)>>
        /\ (len_res.res # "none" /\ \E j \in DOMAIN datapipes : datapipes[j].kind # "sized")
              => len_res.res = "TypeError"

\* a concat of three sources, one of them without a length, has yielded
\* everything and has failed a len() answered from the stored length
C10_Witness ==
    /\ cls = "concat" /\ gstate = "done"
    /\ Len(datapipes) = 3
    /\ Len(yielded) >= 3
    /\ datapipes[2].kind = "unsized"
    /\ len_res.res = "TypeError" /\ len_res.cached

\* C11 (as claimed): constructing a zip over no sources fails; no zip stage
\* over zero sources is ever ready for use.
C11_EmptyZipRejected ==
    (cls = "zip" /\ datapipes = <<>>) => status # "ready"

\* ---------------------------------------------------------------------
\* The map stage alone

\* trees of exactly n nodes, and sequences of trees of m nodes in all
RECURSIVE Trees(_)
RECURSIVE Forests(_)
Trees(n) ==
    IF n = 1
    THEN {Leaf(v) : v \in 1 .. MaxLeaf} \cup {Node(t, <<>>) : t \in {"list", "chunk"}}
    ELSE {Node(t, f) : t \in {"list", "chunk"}, f \in Forests(n - 1)}

Forests(m) ==
    IF m = 0 THEN {<<>>}
    ELSE UNION {{<<t>> \o f : t \in Trees(k), f \in Forests(m - k)} : k \in 1 .. m}

\* [[1, 2], [3]]
Nested123 ==
    Node("list", <<Node("list", <<Leaf(1), Leaf(2)>>), Node("list", <<Leaf(3)>>)>>)

InitMap ==
    /\ map_data \in UNION {Trees(n) : n \in 1 .. MaxNodes} \cup {Nested123}
    /\ nesting_level \in (-2) .. MaxLevel
    /\ map_status = "new"
    /\ map_res = Raised("none")
    /\ NoFork
    /\ NoStage
    /\ NoDemux

NextMap ==
    \/ MapConstruct
    \/ MapNext

SpecMap == InitMap /\ [][NextMap]_vars

\* the positions of a tree: the index paths from its root
RECURSIVE Paths(_)
Paths(t) ==
    IF IsNested(t)
    THEN {<<>>} \cup UNION {{<<k>> \o q : q \in Paths(t.items[k])} : k \in DOMAIN t.items}
    ELSE {<<>>}

\* the subtree at a position
RECURSIVE At(_, _)
At(t, q) == IF q = <<>> THEN t ELSE At(t.items[Head(q)], Tail(q))

\* r has at position q a container of the kind and size t has there
SameContainer(t, r, q) ==
    /\ q \in Paths(r)
    /\ At(r, q).tag = At(t, q).tag
    /\ Len(At(r, q).items) = Len(At(t, q).items)

\* r has at position q the result of fn on what t has there
FnAt(t, r, q) == q \in Paths(r) /\ At(r, q) = Fn(At(t, q))

\* C12: with nesting_level 0 fn is applied to the whole element; with
\* nesting_level n > 0 the element fails with the nesting-depth error
\* (IndexError) iff something above depth n in it is not a nested sequence,
\* and else the result has the element's containers above depth n and fn
\* of each item at depth n; with nesting_level -1 the result has the
\* element's containers and fn of each leaf, at any depth; [[1, 2], [3]]
\* gives [[fn(1), fn(2)], [fn(3)]].
C12_MapNesting ==
    map_res.res # "none" =>
        LET t == map_data
            r == map_res.val
            n == nesting_level
            shallow == \E q \in Paths(t) : Len(q) < n /\ ~IsNested(At(t, q))
        IN
        /\ n = 0 => map_res = Returned(Fn(t))
        /\ (n > 0 /\ shallow) => map_res.res = "IndexError"
        /\ (n > 0 /\ ~shallow) =>
              /\ map_res.res = "ok"
              /\ \A q \in Paths(t) :
                    /\ Len(q) < n => SameContainer(t, r, q)
                    /\ Len(q) = n => FnAt(t, r, q)
        /\ n = -1 =>
              /\ map_res.res = "ok"
              /\ \A q \in Paths(t) :
                    IF IsNested(At(t, q)) THEN SameContainer(t, r, q) ELSE FnAt(t, r, q)
        /\ (n = -1 /\ t = Nested123) =>
              r = Node("list", <<Node("list", <<Fn(Leaf(1)), Fn(Leaf(2))>>),
                                 Node("list", <<Fn(Leaf(3))>>)>>)

\* [[1, 2], [3]] has been mapped at the leaves
C12_Witness ==
    /\ map_data = Nested123
    /\ nesting_level = -1
    /\ map_res.res = "ok"

\* ---------------------------------------------------------------------
\* The demux stage alone

InitDemux ==
    /\ dm_len \in 0 .. MaxDemuxLen
    /\ instances \in 1 .. MaxViews
    /\ classifier \in [1 .. dm_len -> 0 .. instances - 1]
    /\ dm_status = "new"
    /\ dm_buffer = <<>>
    /\ up_iters = 0
    /\ up_pulls = 0
    /\ dm_gen = [i \in 0 .. instances - 1 |-> "none"]
    /\ dm_pos = [i \in 0 .. instances - 1 |-> 0]
    /\ dm_out = [i \in 0 .. instances - 1 |-> <<>>]
    /\ NoFork
    /\ NoStage
    /\ NoMap

NextDemux ==
    \/ DemuxNew
    \/ \E i \in Views : DemuxIter(i)
    \/ \E i \in Views : DemuxNext(i)

SpecDemux == InitDemux /\ [][NextDemux]_vars

\* the upstream positions classified i, in upstream order
RECURSIVE Classified(_, _)
Classified(i, n) ==
    IF n = 0 THEN <<>>
    ELSE IF classifier[n] = i THEN Append(Classified(i, n - 1), n)
    ELSE Classified(i, n - 1)

\* C13: construction pulls the whole upstream once; from then on nothing is
\* pulled from upstream, whatever views are iterated or iterated again; a
\* view has yielded so far a prefix of the upstream elements classified to
\* it, in upstream order, and all of them when it is exhausted; once every
\* view is exhausted each upstream element is in exactly one view's output,
\* once.
C13_DemuxPartition ==
    /\ dm_status = "new" => up_iters = 0 /\ up_pulls = 0
    /\ dm_status = "ready" =>
          /\ up_iters = 1
          /\ up_pulls = dm_len
          /\ \A i \in Views :
                /\ IsPrefix(dm_out[i], Classified(i, dm_len))
                /\ dm_gen[i] = "done" => dm_out[i] = Classified(i, dm_len)
          /\ (\A i \in Views : dm_gen[i] = "done") =>
                \A x \in 1 .. dm_len :
                    /\ Cardinality({i \in Views : Occurrences(dm_out[i], x) > 0}) = 1
                    /\ \A i \in Views : Occurrences(dm_out[i], x) <= 1

\* two views, both exhausted, each having yielded elements, view 0 the
\* first and the third
C13_Witness ==
    /\ dm_status = "ready"
    /\ instances = 2
    /\ dm_len = MaxDemuxLen
    /\ \A i \in Views : dm_gen[i] = "done" /\ dm_out[i] # <<>>
    /\ dm_out[0] = <<1, 3>>


\* C14 (as claimed): no pull fails with an out-of-range buffer access, and
\* an element a pull yields is the upstream element at the position the
\* consumer's cursor had before the pull.
C14_BufferedReadInRange ==
    /\ last.res # "IndexError"
    /\ (last.op = "next" /\ last.res = "yield") =>
          last.val = <<child_pointers[last.id] - 1>>


\* C15: a pull that has to fetch (the consumer's generator is live, its
\* loop runs on and it is leading) by a consumer exactly buffer_size
\* positions ahead of the slowest consumer fails with BufferError and takes nothing
\* from upstream, whether or not upstream has elements left: the upstream
\* iterator is where it was (or just created), end_ptr, buffer and cursors
\* are unchanged.
C15_CheckBeforeUpstream ==
    [][\A i \in Instances :
          (/\ Live(i)
           /\ LoopCond(end_ptr, child_pointers[i])
           /\ IsLeading(buffer, child_pointers[i], leading_ptr)
           /\ child_pointers[i] - Min(child_pointers) = buffer_size
           /\ Pull(i))
          => /\ last'.res = "BufferError"
             /\ last'.id = i
             /\ datapipe_iterator' = (IF datapipe_iterator = NoIter THEN 0 ELSE datapipe_iterator)
             /\ end_ptr' = end_ptr
             /\ buffer' = buffer
             /\ child_pointers' = child_pointers
             /\ out' = out]_vars

\* a consumer has overflowed on an upstream of exactly buffer_size elements,
\* all of them fetched, before anyone saw the end
C15_Witness ==
    /\ last.op = "next"
    /\ last.res = "BufferError"
    /\ src_len = buffer_size
    /\ datapipe_iterator = src_len
    /\ child_pointers[last.id] = src_len
    /\ end_ptr = NoEnd
    /\ ~reiterated


\* C16: the buffer never holds more than buffer_size elements.
C16_BufferWithinCapacity == Len(buffer) <= buffer_size

\* a full buffer of more than one element after evictions and a failed pull
C16_Witness ==
    /\ Len(buffer) = buffer_size
    /\ buffer_size > 1
    /\ slowest_ptr > 0
    /\ overflowed


\* C17: iter() on a view whose cursor is 0 leaves the buffer, every cursor,
\* slowest_ptr, leading_ptr, end_ptr and the upstream iterator as they
\* were, and emits no warning.
C17_FreshIterKeepsProgress ==
    [][\A i \in Instances :
          (child_pointers[i] = 0 /\ Iter(i))
          => /\ ~last'.warn
             /\ buffer' = buffer
             /\ child_pointers' = child_pointers
             /\ slowest_ptr' = slowest_ptr
             /\ leading_ptr' = leading_ptr
             /\ end_ptr' = end_ptr
             /\ datapipe_iterator' = datapipe_iterator]_vars

\* a view that has not started was just iterated while another consumer
\* is under way and elements are buffered
C17_Witness ==
    /\ last.op = "iter"
    /\ ~last.warn
    /\ child_pointers[last.id] = 0
    /\ \E j \in Instances : child_pointers[j] > 0
    /\ buffer # <<>>


\* the container as reset() leaves it
Rewound ==
    /\ buffer' = <<>>
    /\ child_pointers' = [j \in Instances |-> 0]
    /\ slowest_ptr' = 0
    /\ leading_ptr' = 0
    /\ end_ptr' = NoEnd
    /\ datapipe_iterator' = 0

\* C18: (a) when every cursor equals end_ptr, iter() on a started view
\* resets the container and emits no warning, which opens a new pass;
\* (b) in a pass opened that way, iter() on a view whose cursor is still 0
\* neither warns nor resets, and the pass goes on; (c) in such a pass every
\* consumer has yielded the upstream elements in original order up to its
\* cursor, and a consumer that has run to the end has yielded all of them.
C18_CleanRestart ==
    /\ [][\A i \in Instances :
             (/\ child_pointers[i] # 0
              /\ \A j \in Instances : child_pointers[j] = end_ptr
              /\ Iter(i))
             => ~last'.warn /\ Rewound /\ clean_pass']_vars
    /\ [][\A i \in Instances :
             (clean_pass /\ child_pointers[i] = 0 /\ Iter(i))
             => /\ ~last'.warn
                /\ clean_pass'
                /\ UNCHANGED <<buffer, child_pointers, slowest_ptr, leading_ptr,
                               end_ptr, datapipe_iterator, out>>]_vars
    /\ [](clean_pass =>
             \A i \in Instances :
                /\ out[i] = Prefix(child_pointers[i])
                /\ (gen[i] = "done" /\ child_pointers[i] > 0) =>
                       out[i] = Prefix(src_len))

\* a second pass opened without a warning, in which several consumers
\* have each yielded the whole upstream again
C18_Witness ==
    /\ clean_pass
    /\ num_instances > 1
    /\ src_len > 1
    /\ \A i \in Instances : gen[i] = "done" /\ out[i] = Prefix(src_len)


\* C20: a pull raises slowest_ptr by at most one; it removes exactly the
\* front element of the buffer when slowest_ptr is raised (anything
\* fetched by the same pull aside, a pull that fetches never evicts) and
\* removes nothing otherwise; the front of a non-empty buffer is the
\* upstream element at position slowest_ptr.
C20_EvictOneIsEnough ==
    /\ [][\A i \in Instances :
             Pull(i) =>
                /\ slowest_ptr' \in {slowest_ptr, slowest_ptr + 1}
                /\ slowest_ptr' = slowest_ptr + 1 =>
                       buffer # <<>> /\ buffer' = Tail(buffer)
                /\ slowest_ptr' = slowest_ptr =>
                       IsPrefix(buffer, buffer')]_vars
    /\ [](buffer # <<>> => Head(buffer) = slowest_ptr)

\* the slowest of several consumers has just read the buffer's front,
\* which was evicted while elements stay buffered behind it
C20_Witness ==
    /\ last.op = "next"
    /\ last.res = "yield"
    /\ num_instances > 1
    /\ slowest_ptr = child_pointers[last.id]
    /\ slowest_ptr > 0
    /\ last.val = <<slowest_ptr - 1>>
    /\ buffer # <<>>
    /\ Head(buffer) = slowest_ptr


\* ---------------------------------------------------------------------
\* The fork driven once: every view is iterated at most once, and the
\* consumers' callers keep calling iter() on a view they have not iterated
\* and next() on a view they have.

\* the first iter() on child view i
FirstIter(i) == gen[i] = "none" /\ Iter(i)

NextOnce ==
    \/ \E i \in Instances : FirstIter(i)
    \/ \E i \in Instances : Pull(i)

SpecOnce ==
    /\ Init
    /\ [][NextOnce]_vars
    /\ \A i \in 0 .. MaxInstances - 1 : WF_vars(i \in Instances /\ FirstIter(i))
    /\ \A i \in 0 .. MaxInstances - 1 : WF_vars(i \in Instances /\ Pull(i))

\* the pass is over for everyone
PassComplete ==
    /\ end_ptr = src_len
    /\ is_every_instance_exhausted
    /\ \A i \in Instances :
          /\ gen[i] = "done"
          /\ child_pointers[i] = src_len
          /\ out[i] = Prefix(src_len)

\* C19: with every view iterated once and every consumer pulled again and
\* again, unless some pull fails with overflow the pass completes and stays
\* complete: end_ptr is the upstream length, every consumer's generator has
\* returned (StopIteration, no error) with its cursor at the upstream
\* length after yielding every element, and is_every_instance_exhausted()
\* is true; end_ptr, once set, is the upstream length and is not changed.
C19_PassCompletes ==
    /\ (<>overflowed) \/ <>[]PassComplete
    /\ [](end_ptr # NoEnd => end_ptr = src_len)
    /\ [][end_ptr # NoEnd => end_ptr' = end_ptr]_vars

\* several consumers have completed a pass over a longest upstream without
\* an overflow
C19_Witness ==
    /\ PassComplete
    /\ ~overflowed
    /\ num_instances > 1
    /\ src_len > buffer_size
    /\ last.res = "StopIteration"

=============================================================================
